---- MODULE Spec2Model ----
(***************************************************************************)
(* Model of io_import_nolimits_csv.py: the NoLimits 2 CSV importer and     *)
(* exporter for Blender.                                                   *)
(*                                                                         *)
(* Numbers are integers.  Vectors are triples <<x, y, z>>.  The geometry   *)
(* is explored on axis-aligned vectors, where normalisation, the dot and   *)
(* cross products and the arc cosine are exact; an angle is counted in     *)
(* quarter turns (1 = pi/2 radians).                                       *)
(*                                                                         *)
(* A text file is a sequence of physical lines, a line is the sequence of  *)
(* its tab-separated cells, and a cell is a record [kind, val]:            *)
(*   "num"  : text that float() accepts, with value val                    *)
(*   "text" : text that float() rejects and that contains no '|'           *)
(*   "pipe" : the text |x, which starts with the reader's quote character  *)
(***************************************************************************)
EXTENDS Integers, Sequences, FiniteSets, TLC

\* ------------------------------------------------------------------ bounds
MaxLines == 2
MaxPointCount == 3
MaxStations == 3

\* ------------------------------------------------------- program constants
MinColumns == 13
DotScale == 1000000
SameTangentDot == 999999
ZParallelScale == 10000
ZParallelLimit == 9999

\* ------------------------------------------------------------ vector math
Abs(x) ==
  IF x < 0 THEN -x ELSE x

Sign(x) ==
  IF x < 0 THEN -1 ELSE IF x > 0 THEN 1 ELSE 0

ZeroVec ==
  <<0, 0, 0>>

VSub(a, b) ==
  <<a[1] - b[1], a[2] - b[2], a[3] - b[3]>>

VAdd(a, b) ==
  <<a[1] + b[1], a[2] + b[2], a[3] + b[3]>>

VScale(k, a) ==
  <<k * a[1], k * a[2], k * a[3]>>

Dot(a, b) ==
  a[1] * b[1] + a[2] * b[2] + a[3] * b[3]

Cross(a, b) ==
  <<a[2] * b[3] - a[3] * b[2],
    a[3] * b[1] - a[1] * b[3],
    a[1] * b[2] - a[2] * b[1]>>

LengthSquared(a) ==
  Dot(a, a)

\* exactly one non-zero component
AxisAligned(a) ==
  Cardinality({k \in 1..3 : a[k] # 0}) = 1

\* Vector.normalized(): the zero vector stays zero; exact on the axes
Normalized(a) ==
  <<Sign(a[1]), Sign(a[2]), Sign(a[3])>>

\* TO_BLENDER_COORDINATES @ v
ToBlender(v) ==
  <<v[1], -v[3], v[2]>>

ToSourceNoSign(v) ==
  <<v[1], v[3], v[2]>>

\* the inverse mapping the export writes: x, z, -y
ToSource(v) ==
  <<v[1], v[3], -v[2]>>

\* ---------------------------------------------------------- the text file
Num(v) ==
  [kind |-> "num", val |-> v]

TextCell ==
  [kind |-> "text", val |-> 0]

PipeCell ==
  [kind |-> "pipe", val |-> 0]

\* float(cell) succeeds
IsFloat(c) ==
  c.kind = "num"

\* float(cell)
Float(c) ==
  c.val

\* f'{x}' of a number
Format(x) ==
  Num(x)

Station(pos, front, left, up) ==
  [pos |-> pos, front |-> front, left |-> left, up |-> up]

\* csv.reader(csv_file, delimiter='\t', quotechar='|') over the cells of one
\* physical line: st = [inq, row]; a pipe cell opens a quoted field, and
\* inside a quoted field every cell is swallowed up to the next pipe cell
RECURSIVE ScanCells(_, _)
ScanCells(cells, st) ==
  IF cells = <<>> THEN st
  ELSE LET c == Head(cells) IN
       IF st.inq
       THEN IF c.kind = "pipe"
            THEN ScanCells(Tail(cells), [inq |-> FALSE, row |-> Append(st.row, TextCell)])
            ELSE ScanCells(Tail(cells), st)
       ELSE IF c.kind = "pipe"
            THEN ScanCells(Tail(cells), [inq |-> TRUE, row |-> st.row])
            ELSE ScanCells(Tail(cells), [inq |-> FALSE, row |-> Append(st.row, c)])

\* the rows csv.reader yields for the whole file
RECURSIVE CsvReader(_, _, _)
CsvReader(lines, st, acc) ==
  IF lines = <<>>
  THEN IF st.inq THEN Append(acc, Append(st.row, TextCell)) ELSE acc
  ELSE LET r == ScanCells(Head(lines), st) IN
       IF r.inq
       THEN CsvReader(Tail(lines), r, acc)
       ELSE CsvReader(Tail(lines), [inq |-> FALSE, row |-> <<>>], Append(acc, r.row))

\* the twelve float() conversions of one row all succeed
RowParses(row) ==
  \A k \in 2..MinColumns : IsFloat(row[k])

RowToVertex(row) ==
  Station(<<Float(row[2]), Float(row[3]), Float(row[4])>>,
          <<Float(row[5]), Float(row[6]), Float(row[7])>>,
          <<Float(row[8]), Float(row[9]), Float(row[10])>>,
          <<Float(row[11]), Float(row[12]), Float(row[13])>>)

\* the loop body of get_vertices_from_csv over the rows of the reader
RECURSIVE CollectVertices(_, _)
CollectVertices(rows, vertices) ==
  IF rows = <<>> THEN vertices
  ELSE LET row == Head(rows) IN
       IF row = <<>> THEN CollectVertices(Tail(rows), vertices)
       ELSE IF Len(row) < MinColumns THEN CollectVertices(Tail(rows), vertices)
       ELSE IF ~RowParses(row) THEN CollectVertices(Tail(rows), vertices)
       ELSE CollectVertices(Tail(rows), Append(vertices, RowToVertex(row)))

get_vertices_from_csv(lines) ==
  CollectVertices(CsvReader(lines, [inq |-> FALSE, row |-> <<>>], <<>>), <<>>)

\* ---------------------------------------------------- apply_tilt_values
PlusZ ==
  <<0, 0, 1>>

PlusX ==
  <<1, 0, 0>>

TangentAtDefaultZ(points, i, tangents) ==
  LET diff == VSub(points[i + 2], points[i + 1]) IN
  IF LengthSquared(diff) > 0 THEN Normalized(diff) ELSE PlusZ

\* one pass of the tangent loop: i is the 0-based loop index
TangentAt(points, i, tangents) ==
  LET diff == VSub(points[i + 2], points[i + 1]) IN
  IF LengthSquared(diff) > 0 THEN Normalized(diff)
  ELSE IF i = 0 THEN PlusZ ELSE tangents[Len(tangents)]

RECURSIVE TangentLoop(_, _, _)
TangentLoop(points, i, tangents) ==
  IF i >= Len(points) - 1 THEN tangents
  ELSE TangentLoop(points, i + 1, Append(tangents, TangentAt(points, i, tangents)))

\* the tangents list: one entry per point
Tangents(points) ==
  LET body == TangentLoop(points, 0, <<>>) IN
  IF Len(points) > 1 THEN Append(body, body[Len(body)]) ELSE Append(body, PlusZ)

HelperAxisAlwaysZ(current_tangent) ==
  PlusZ

\* the helper axis of the initial normal
HelperAxis(current_tangent) ==
  IF Abs(current_tangent[3]) * ZParallelScale > ZParallelLimit THEN PlusX ELSE PlusZ

InitialNormal(current_tangent) ==
  Normalized(Cross(Cross(current_tangent, HelperAxis(current_tangent)), current_tangent))

\* the axis mathutils takes for a half turn: an orthogonal of a, not normalised
OrthoAxis(a) ==
  IF Abs(a[1]) >= Abs(a[2]) /\ Abs(a[1]) >= Abs(a[3]) THEN <<-a[2] - a[3], a[1], a[1]>>
  ELSE IF Abs(a[2]) >= Abs(a[3]) THEN <<a[2], -a[1] - a[3], a[2]>>
  ELSE <<a[3], a[3], -a[1] - a[2]>>

\* t_prev.rotation_difference(t_curr) @ v for unit vectors t_prev, t_curr on
\* the axes: no turn, a quarter turn about their cross product, or a half
\* turn about OrthoAxis(t_prev)
Rotate(t_prev, t_curr, v) ==
  LET k == Cross(t_prev, t_curr)
      d == Dot(t_prev, t_curr)
      a == OrthoAxis(t_prev)
  IN IF k # ZeroVec THEN VAdd(Cross(k, v), VScale(Dot(k, v), k))
     ELSE IF d > 0 THEN v
     ELSE VSub(VScale((2 * Dot(a, v)) \div LengthSquared(a), a), v)

\* the two tangents differ enough for the normal to be transported
NeedsTransport(t_prev, t_curr) ==
  Dot(t_prev, t_curr) * DotScale < SameTangentDot

\* target_up projected onto the plane perpendicular to t_curr
ProjectUp(target_up, t_curr, normal) ==
  LET target_up_proj == VSub(target_up, VScale(Dot(target_up, t_curr), t_curr)) IN
  IF LengthSquared(target_up_proj) > 0 THEN Normalized(target_up_proj) ELSE normal

Clamp(dot) ==
  IF dot > 1 THEN 1 ELSE IF dot < -1 THEN -1 ELSE dot

\* math.acos in quarter turns
Acos(dot) ==
  IF dot = 1 THEN 0 ELSE IF dot = 0 THEN 1 ELSE 2

\* the signed angle from normal to target_up_proj about t_curr
SignedAngle(normal, target_up_proj, t_curr) ==
  LET angle == Acos(Clamp(Dot(normal, target_up_proj)))
      cross == Cross(normal, target_up_proj)
  IN IF Dot(cross, t_curr) < 0 THEN -angle ELSE angle

\* ----------------------------------------------------- sample_curve_as_csv
NoObject ==
  [type |-> "NONE", splines |-> <<>>]

InvalidCurveMissingOnly(curve) ==
  curve.type = "NONE"

\* context.active_object is missing or is no curve
InvalidCurve(curve) ==
  curve.type = "NONE" \/ curve.type # "CURVE"

EffectivePointCountAsGiven(point_count, curve) ==
  point_count

\* the point count the loop runs to
EffectivePointCount(point_count, curve) ==
  IF point_count = 0
  THEN IF curve.splines # <<>> THEN curve.splines[1] ELSE 0
  ELSE point_count

LargestIndexUnguarded(point_count) ==
  point_count - 1

LargestIndex(point_count) ==
  IF point_count - 1 <= 0 THEN 1 ELSE point_count - 1

HeaderRow ==
  [k \in 1..13 |-> TextCell]

ZeroText ==
  Num(0)

\* one data row: i is the 0-based index of matrix m
CsvRow(i, m) ==
  LET pos == ToSource(m.pos)
      up == ToSource(m.up)
  IN <<Format(i + 1), Format(pos[1]), Format(pos[2]), Format(pos[3]),
       ZeroText, ZeroText, ZeroText, ZeroText, ZeroText, ZeroText,
       Format(up[1]), Format(up[2]), Format(up[3])>>

CsvRows(matrices) ==
  <<HeaderRow>> \o [i \in 1..Len(matrices) |-> CsvRow(i - 1, matrices[i])]

\* ------------------------------------------------------------------ state
VARIABLES
  active,         \* context.active_object: [type, splines], splines the point counts
  objects,        \* bpy.data.objects
  linked,         \* the objects linked into a collection of the scene
  curves,         \* bpy.data.curves
  collections,    \* bpy.data.collections
  spline,         \* the points of the imported spline: [co, tilt] each
  disk,           \* the .csv file the export writes: [exists, lines]
  pc,             \* the position of the running operator
  file,           \* the lines add_curve_from_csv read
  vertices,       \* the stations parsed from file
  import_result,  \* what add_curve_from_csv returned
  tangents,       \* apply_tilt_values: the tangents list
  normal,         \* apply_tilt_values: the running normal
  ti,             \* apply_tilt_values: the number of points done
  requested,      \* sample_curve_as_csv: the point_count argument
  point_count,    \* sample_curve_as_csv: the point count in effect
  largest_index,  \* sample_curve_as_csv: the divisor of the offsets
  ei,             \* sample_curve_as_csv: the number of samples taken
  offsets,        \* the offset factors set so far: <<i, largest_index>> each
  matrices,       \* the sampled world matrices: [right, front, up, pos] each
  export_result,  \* what sample_curve_as_csv returned
  report          \* what ExportNl2Csv.execute reported

hostvars ==
  <<active, objects, linked, curves, collections, spline>>

importvars ==
  <<file, vertices, import_result, tangents, normal, ti>>

exportvars ==
  <<requested, point_count, largest_index, ei, offsets, matrices, export_result, report>>

vars ==
  <<active, objects, linked, curves, collections, spline, disk, pc,
    file, vertices, import_result, tangents, normal, ti,
    requested, point_count, largest_index, ei, offsets, matrices,
    export_result, report>>

\* ----------------------------------------------------------------- inputs
\* the scenes an operator is started in: no active object, a mesh, curves
\* with no spline, one spline or two splines
ActiveObjects ==
  {NoObject,
   [type |-> "MESH", splines |-> <<>>],
   [type |-> "CURVE", splines |-> <<>>],
   [type |-> "CURVE", splines |-> <<0>>],
   [type |-> "CURVE", splines |-> <<2>>],
   [type |-> "CURVE", splines |-> <<3, 2>>]}

ActiveObj ==
  [name |-> "Active", n |-> 0]

Reader ==
  [name |-> "tmp_curve_reader", n |-> 0]

CurveObj ==
  [name |-> "track Object", n |-> 0]

Empty(k) ==
  [name |-> "track Raw", n |-> k]

\* what the evaluated reader's matrix_world can be: the frame of the test,
\* a frame pitched a quarter turn one unit further on, a collapsed frame
Frames ==
  {[right |-> <<1, 0, 0>>, front |-> <<0, 1, 0>>, up |-> <<0, 0, 1>>, pos |-> <<10, 20, 30>>],
   [right |-> <<1, 0, 0>>, front |-> <<0, 0, 1>>, up |-> <<0, -1, 0>>, pos |-> <<10, 20, 31>>],
   [right |-> <<0, 0, 0>>, front |-> <<0, 0, 0>>, up |-> <<0, 0, 0>>, pos |-> <<10, 20, 30>>]}

StdFront ==
  <<0, 0, 1>>

StdLeft ==
  <<1, 0, 0>>

\* the stations of the input files
FileStations ==
  {Station(<<0, 0, 0>>, StdFront, StdLeft, <<0, 1, 0>>),
   Station(<<1, 0, 0>>, StdFront, StdLeft, <<0, 1, 0>>),
   Station(<<1, 0, 0>>, StdFront, StdLeft, <<0, 0, 1>>)}

\* a well-formed data line of station s
DataLine(s) ==
  <<Format(1), Format(s.pos[1]), Format(s.pos[2]), Format(s.pos[3]),
    Format(s.front[1]), Format(s.front[2]), Format(s.front[3]),
    Format(s.left[1]), Format(s.left[2]), Format(s.left[3]),
    Format(s.up[1]), Format(s.up[2]), Format(s.up[3])>>

SampleStation ==
  Station(<<0, 0, 0>>, StdFront, StdLeft, <<0, 1, 0>>)

\* the lines of the input files: data lines, the header, a blank line, a
\* line of twelve columns, lines with a non-numeric column, a data line with
\* a non-numeric index, a data line with a fourteenth column, a note that
\* starts with '|'
Lines ==
  {DataLine(s) : s \in FileStations}
  \cup {HeaderRow, <<>>, SubSeq(DataLine(SampleStation), 1, 12)}
  \cup {[DataLine(SampleStation) EXCEPT ![k] = TextCell] : k \in {1, 2, 13}}
  \cup {Append(DataLine(SampleStation), TextCell), <<PipeCell>>}

Files ==
  UNION {[1..n -> Lines] : n \in 0..MaxLines}

\* ------------------------------------------------------------------- Init
NoMatrix ==
  <<>>

Init ==
  /\ active \in ActiveObjects
  /\ objects = IF active.type = "NONE" THEN {} ELSE {ActiveObj}
  /\ linked = objects
  /\ curves = IF active.type = "CURVE" THEN {"Active"} ELSE {}
  /\ collections = {}
  /\ spline = <<>>
  /\ disk = [exists |-> FALSE, lines |-> <<>>]
  /\ pc = "idle"
  /\ file = <<>>
  /\ vertices = <<>>
  /\ import_result = "NONE"
  /\ tangents = <<>>
  /\ normal = ZeroVec
  /\ ti = 0
  /\ requested = 0
  /\ point_count = 0
  /\ largest_index = 0
  /\ ei = 0
  /\ offsets = <<>>
  /\ matrices = NoMatrix
  /\ export_result = "NONE"
  /\ report = "NONE"

\* ------------------------------------------------------ add_curve_from_csv
NoVerticesNever(vs) ==
  FALSE

\* "if not vertices"
NoVertices(vs) ==
  vs = <<>>

To4d(v) ==
  <<v[1], v[2], v[3], 1>>

\* the POLY spline: its first point, the len(vertices) - 1 points added to
\* it, and apply_vertex_positions; a new point has tilt 0
SplinePoints(vs) ==
  [i \in 1..(1 + (Len(vs) - 1)) |-> [co |-> To4d(ToBlender(vs[i].pos)), tilt |-> 0]]

\* create_empties: one empty per vertex
Empties(vs) ==
  {Empty(k) : k \in 1..Len(vs)}

\* [TO_BLENDER_COORDINATES @ v['pos'] for v in vertices]
Points(vs) ==
  [i \in 1..Len(vs) |-> ToBlender(vs[i].pos)]

\* add_curve_from_csv up to the first pass of the tilt loop
AddCurveFromCsv(lines, raw) ==
  LET vs == get_vertices_from_csv(lines) IN
  /\ file' = lines
  /\ vertices' = vs
  /\ IF NoVertices(vs)
     THEN /\ import_result' = "CANCELLED"
          /\ pc' = "import_cancelled"
          /\ UNCHANGED <<hostvars, tangents, normal, ti>>
     ELSE /\ curves' = curves \cup {"track"}
          /\ spline' = SplinePoints(vs)
          /\ objects' = objects \cup {CurveObj} \cup (IF raw THEN Empties(vs) ELSE {})
          /\ collections' = IF raw THEN collections \cup {"track Raw"} ELSE collections
          /\ linked' = linked \cup {CurveObj} \cup (IF raw THEN Empties(vs) ELSE {})
          /\ tangents' = Tangents(Points(vs))
          /\ normal' = InitialNormal(Tangents(Points(vs))[1])
          /\ ti' = 0
          /\ import_result' = "RUNNING"
          /\ pc' = "tilt"
          /\ UNCHANGED active
  /\ UNCHANGED <<disk, exportvars>>

\* ImportNl2Csv.execute on a file of the user
ImportFile ==
  /\ pc = "idle"
  /\ \E lines \in Files, raw \in BOOLEAN : AddCurveFromCsv(lines, raw)

\* ImportNl2Csv.execute on the file the export has written
ImportExported ==
  /\ pc = "exported"
  /\ disk.exists
  /\ \E raw \in BOOLEAN : AddCurveFromCsv(disk.lines, raw)

TransportFromFirstTangent(t_prev, t_curr, n) ==
  IF NeedsTransport(tangents[1], t_curr) THEN Rotate(tangents[1], t_curr, n) ELSE n

\* the minimum-twist transport of the running normal n
TransportNormal(t_prev, t_curr, n) ==
  IF NeedsTransport(t_prev, t_curr) THEN Rotate(t_prev, t_curr, n) ELSE n

\* one pass of the tilt loop, for point i = ti
TiltStep ==
  /\ pc = "tilt"
  /\ ti < Len(vertices)
  /\ LET i == ti + 1
         t_curr == tangents[i]
         n == IF ti > 0 THEN TransportNormal(tangents[i - 1], t_curr, normal) ELSE normal
         target_up_proj == ProjectUp(ToBlender(vertices[i].up), t_curr, n)
     IN /\ normal' = n
        /\ spline' = [spline EXCEPT ![i].tilt = SignedAngle(n, target_up_proj, t_curr)]
  /\ ti' = ti + 1
  /\ UNCHANGED <<active, objects, linked, curves, collections, disk, pc,
                 file, vertices, import_result, tangents, exportvars>>

\* the tilt loop is over: add_curve_from_csv returns
ImportReturn ==
  /\ pc = "tilt"
  /\ ti = Len(vertices)
  /\ import_result' = "FINISHED"
  /\ pc' = "imported"
  /\ UNCHANGED <<hostvars, disk, file, vertices, tangents, normal, ti, exportvars>>

\* ----------------------------------------------------- ExportNl2Csv.execute
\* sample_curve_as_csv up to the first pass of the sampling loop
ExportExecute ==
  /\ pc = "idle"
  /\ \E pcount \in 0..MaxPointCount :
       /\ requested' = pcount
       /\ IF InvalidCurve(active)
          THEN /\ export_result' = "CANCELLED"
               /\ report' = "ERROR_INVALID_CONTEXT"
               /\ pc' = "export_cancelled"
               /\ UNCHANGED <<objects, linked, point_count, largest_index>>
          ELSE /\ point_count' = EffectivePointCount(pcount, active)
               /\ largest_index' = LargestIndex(EffectivePointCount(pcount, active))
               /\ objects' = objects \cup {Reader}
               /\ linked' = linked \cup {Reader}
               /\ export_result' = "RUNNING"
               /\ pc' = "sample"
               /\ UNCHANGED report
  /\ UNCHANGED <<active, curves, collections, spline, disk, importvars, ei, offsets, matrices>>

\* one pass of the sampling loop: the host evaluates the reader
SampleCurve ==
  /\ pc = "sample"
  /\ ei < point_count
  /\ \E m \in Frames : matrices' = Append(matrices, m)
  /\ offsets' = Append(offsets, <<ei, largest_index>>)
  /\ ei' = ei + 1
  /\ UNCHANGED <<hostvars, disk, pc, importvars, requested, point_count,
                 largest_index, export_result, report>>

\* one pass of the sampling loop: the host's evaluation raises, and the
\* error leaves sample_curve_as_csv and the operator
SampleRaises ==
  /\ pc = "sample"
  /\ ei < point_count
  /\ offsets' = Append(offsets, <<ei, largest_index>>)
  /\ export_result' = "RAISED"
  /\ pc' = "raised"
  /\ UNCHANGED <<hostvars, disk, importvars, requested, point_count,
                 largest_index, ei, matrices, report>>

\* the sampling loop is over: the reader is removed and the file written
WriteCsv ==
  /\ pc = "sample"
  /\ ei = point_count
  /\ objects' = objects \ {Reader}
  /\ linked' = linked \ {Reader}
  /\ disk' = [exists |-> TRUE, lines |-> CsvRows(matrices)]
  /\ export_result' = "FINISHED"
  /\ pc' = "exported"
  /\ UNCHANGED <<active, curves, collections, spline, importvars, requested,
                 point_count, largest_index, ei, offsets, matrices, report>>

Next ==
  \/ ImportFile
  \/ ImportExported
  \/ TiltStep
  \/ ImportReturn
  \/ ExportExecute
  \/ SampleCurve
  \/ SampleRaises
  \/ WriteCsv

Spec ==
  Init /\ [][Next]_vars

\* ------------------------------------------- apply_tilt_values on tracks
\* the steps from one station to the next, in source coordinates: none,
\* two units along +X, along +Y (the target's +Z), back along -X
Steps ==
  {<<0, 0, 0>>, <<2, 0, 0>>, <<0, 1, 0>>, <<-1, 0, 0>>}

\* the recorded up vectors, in source coordinates
Ups ==
  {<<0, 1, 0>>, <<1, 0, 0>>, <<-1, 0, 0>>, <<0, 0, 1>>, <<0, 0, -1>>}

RECURSIVE PosAt(_, _)
PosAt(steps, i) ==
  IF i = 1 THEN <<0, 0, 0>> ELSE VAdd(PosAt(steps, i - 1), steps[i - 1])

TrackOf(steps, ups) ==
  [i \in 1..Len(ups) |-> Station(PosAt(steps, i), StdFront, StdLeft, ups[i])]

\* add_curve_from_csv has read a file of data lines, the stations of a track
\* of one to MaxStations stations, and built the curve: apply_tilt_values is
\* at its first pass
InitTilt ==
  /\ \E n \in 1..MaxStations :
       \E steps \in [1..(n - 1) -> Steps], ups \in [1..n -> Ups] :
         LET vs == TrackOf(steps, ups) IN
         /\ file = [i \in 1..Len(vs) |-> DataLine(vs[i])]
         /\ vertices = vs
         /\ spline = SplinePoints(vs)
         /\ tangents = Tangents(Points(vs))
         /\ normal = InitialNormal(Tangents(Points(vs))[1])
  /\ vertices = get_vertices_from_csv(file)
  /\ active = NoObject
  /\ objects = {CurveObj}
  /\ linked = {CurveObj}
  /\ curves = {"track"}
  /\ collections = {}
  /\ disk = [exists |-> FALSE, lines |-> <<>>]
  /\ pc = "tilt"
  /\ import_result = "RUNNING"
  /\ ti = 0
  /\ requested = 0
  /\ point_count = 0
  /\ largest_index = 0
  /\ ei = 0
  /\ offsets = <<>>
  /\ matrices = NoMatrix
  /\ export_result = "NONE"
  /\ report = "NONE"

NextTilt ==
  \/ TiltStep
  \/ ImportReturn

SpecTilt ==
  InitTilt /\ [][NextTilt]_vars

\* ------------------------------------------------------------ properties
\* the geometry stays where the integer arithmetic is exact: every tangent
\* and the running normal are unit vectors on an axis, the normal is
\* perpendicular to the tangent it was last carried to, and every up vector
\* projects to zero or onto an axis
ExactGeometry ==
  pc = "tilt" =>
    /\ Len(tangents) = Len(vertices)
    /\ \A i \in 1..Len(tangents) : AxisAligned(tangents[i]) /\ LengthSquared(tangents[i]) = 1
    /\ AxisAligned(normal) /\ LengthSquared(normal) = 1
    /\ Dot(normal, tangents[IF ti = 0 THEN 1 ELSE ti]) = 0
    /\ \A i \in 1..Len(vertices) :
         LET target_up == ToBlender(vertices[i].up)
             proj == VSub(target_up, VScale(Dot(target_up, tangents[i]), tangents[i]))
         IN proj = ZeroVec \/ AxisAligned(proj)

\* the data row written for the i-th matrix, read back as a station
WrittenRow(i) ==
  RowToVertex(disk.lines[i + 1])

NonDegenerate(m) ==
  m.right # ZeroVec /\ m.front # ZeroVec /\ m.up # ZeroVec

\* C1: every row the export writes for a frame with non-degenerate axes has
\* non-zero Front and Left columns, the inverse-mapped forward axis and the
\* inverse-mapped right axis turned to the left (Front = (0,0,-1) and
\* Left = (-1,0,0) for the frame Right = (1,0,0), Front = (0,1,0),
\* Up = (0,0,1)).
C1_FrontLeftWritten ==
  export_result = "FINISHED" =>
    \A i \in 1..Len(matrices) :
      NonDegenerate(matrices[i]) =>
        /\ WrittenRow(i).front # ZeroVec
        /\ WrittenRow(i).left # ZeroVec
        /\ WrittenRow(i).front = <<matrices[i].front[1], matrices[i].front[3], -matrices[i].front[2]>>
        /\ WrittenRow(i).left = <<-matrices[i].right[1], -matrices[i].right[3], matrices[i].right[2]>>

\* C2: whenever the export has returned or failed after creating the reader,
\* the reader is no longer among the host's objects.
C2_ProbeDestroyed ==
  export_result \in {"FINISHED", "RAISED"} => (Reader \notin objects /\ Reader \notin linked)

\* a physical line with at least 13 columns whose columns 1..12 are numeric
ValidLine(line) ==
  Len(line) >= 13 /\ \A k \in 2..13 : line[k].kind = "num"

RECURSIVE StationsOf(_)
StationsOf(lines) ==
  IF lines = <<>> THEN <<>>
  ELSE IF ValidLine(Head(lines)) THEN <<RowToVertex(Head(lines))>> \o StationsOf(Tail(lines))
  ELSE StationsOf(Tail(lines))

\* C3: the parser returns exactly the stations of the valid data lines of
\* the file, in their order, whatever header, blank or malformed lines are
\* interleaved with them.
C3_ParserLineCount ==
  import_result # "NONE" => vertices = StationsOf(file)

\* C4: an export started with no active object, or with an active object
\* that is no curve, is cancelled and reported as invalid, and changes
\* neither the host's objects nor the file.
C4_InvalidInputNoWrites ==
  [][(export_result = "NONE" /\ export_result' # "NONE"
        /\ (active.type = "NONE" \/ active.type # "CURVE"))
      => (/\ export_result' = "CANCELLED"
          /\ report' = "ERROR_INVALID_CONTEXT"
          /\ Reader \notin objects'
          /\ UNCHANGED <<hostvars, disk>>)]_vars

C4_Witness ==
  export_result = "CANCELLED" /\ active.type = "MESH" /\ report = "ERROR_INVALID_CONTEXT"

\* the point count the curve reports: the points of its first spline
NativePoints(curve) ==
  IF curve.splines = <<>> THEN 0 ELSE curve.splines[1]

\* C5: a finished export of a valid curve has taken and written as many
\* samples as requested: the curve's native point count for a request of 0,
\* k for a request of k > 0, and the one sample of a request of 1 is at
\* offset 0.
C5_SampleCount ==
  export_result = "FINISHED" =>
    /\ Len(matrices) = (IF requested = 0 THEN NativePoints(active) ELSE requested)
    /\ Len(disk.lines) = 1 + Len(matrices)
    /\ Len(offsets) = Len(matrices)
    /\ requested = 1 => offsets[1][1] = 0

C5_Witness ==
  /\ export_result = "FINISHED"
  /\ requested = 0
  /\ NativePoints(active) = 3
  /\ Len(disk.lines) = 4

\* C6 as stated: a one-station input yields one tilt value, and it is 0
\* whatever the station's up vector is.
C6_SingleStationTiltZero ==
  (import_result = "FINISHED" /\ Len(vertices) = 1) =>
    (Len(spline) = 1 /\ spline[1].tilt = 0)

\* the quarter turns about +Z from +X to (x, y), a vector on an axis
QuarterTurns(x, y) ==
  IF y = 0 THEN (IF x >= 0 THEN 0 ELSE 2) ELSE IF y > 0 THEN 1 ELSE -1

\* C6 as amended: a one-station input yields one tilt value, the signed
\* angle about the default tangent +Z from the default normal +X to the
\* horizontal part (up.x, -up.z) of the mapped up vector; it is 0 when
\* up.z = 0 and up.x >= 0, which includes an up vector along the tangent.
C6_SingleStationTilt ==
  (import_result = "FINISHED" /\ Len(vertices) = 1) =>
    /\ Len(spline) = 1
    /\ spline[1].tilt = QuarterTurns(vertices[1].up[1], -vertices[1].up[3])

C6_Witness ==
  /\ import_result = "FINISHED"
  /\ Len(vertices) = 1
  /\ vertices[1].up = <<0, 0, 1>>
  /\ spline[1].tilt = -1

Co3(co) ==
  <<co[1], co[2], co[3]>>

\* C7: the import mapping and the export mapping are inverse to each other:
\* mapping an imported point back gives the position of its station, a
\* written row maps to the sampled position and up vector, and a file the
\* export wrote is imported to the sampled positions.
C7_RoundTrip ==
  /\ import_result \in {"RUNNING", "FINISHED"} =>
       \A i \in 1..Len(spline) : ToSource(Co3(spline[i].co)) = vertices[i].pos
  /\ export_result = "FINISHED" =>
       \A i \in 1..Len(matrices) :
         /\ ToBlender(WrittenRow(i).pos) = matrices[i].pos
         /\ ToBlender(WrittenRow(i).up) = matrices[i].up
  /\ (export_result = "FINISHED" /\ import_result \in {"RUNNING", "FINISHED"}) =>
       /\ Len(spline) = Len(matrices)
       /\ \A i \in 1..Len(spline) : Co3(spline[i].co) = matrices[i].pos

C7_Witness ==
  /\ export_result = "FINISHED"
  /\ import_result = "FINISHED"
  /\ Len(matrices) = 2
  /\ matrices[1].pos # matrices[2].pos
  /\ Co3(spline[2].co) = <<10, 20, 31>>

\* C8: an import whose file has no valid data line is cancelled and leaves
\* the host as it was: no curve, spline, object, collection or empty is
\* created or linked, and no tilt is computed.
C8_NothingToImport ==
  [][(import_result = "NONE" /\ import_result' # "NONE" /\ vertices' = <<>>)
      => (/\ import_result' = "CANCELLED"
          /\ pc' = "import_cancelled"
          /\ UNCHANGED <<hostvars, tangents, normal, ti>>)]_vars

C8_Witness ==
  /\ import_result = "CANCELLED"
  /\ Len(file) = 2
  /\ vertices = <<>>
  /\ curves \subseteq {"Active"}

\* C9: an export of all points of a valid curve that reports no point takes
\* no sample and writes no data row, and its outcome is neither the one of
\* an invalid input nor the one of an export with data.
C9_EmptyResultDistinct ==
  (export_result \notin {"NONE", "RUNNING"} /\ active.type = "CURVE"
     /\ requested = 0 /\ NativePoints(active) = 0) =>
    /\ matrices = <<>>
    /\ export_result \notin {"CANCELLED", "FINISHED"}

\* the two tangents count as the same direction
SameTangent(a, b) ==
  Dot(a, b) * DotScale >= SameTangentDot

\* the up vector of station i (from 1) projected off its tangent
UpProjection(i) ==
  VSub(ToBlender(vertices[i].up), VScale(Dot(ToBlender(vertices[i].up), tangents[i]), tangents[i]))

\* C10: a pass of the tilt loop for a station i > 0 whose tangent is the
\* tangent of station i-1 leaves the running normal unchanged, so the two
\* tilts differ only through the projected up vectors: equal projections
\* give equal tilts.
C10_IdentityTransport ==
  [][(pc = "tilt" /\ ti > 0 /\ ti' = ti + 1 /\ SameTangent(tangents[ti], tangents[ti + 1]))
      => (/\ normal' = normal
          /\ UpProjection(ti + 1) = UpProjection(ti) => spline'[ti + 1].tilt = spline[ti].tilt)]_vars

C10_Witness ==
  /\ pc = "tilt"
  /\ ti = 3
  /\ tangents[1] # tangents[2]
  /\ SameTangent(tangents[2], tangents[3])
  /\ spline[3].tilt # spline[2].tilt

\* the step from station i to station i + 1 (from 1), in target coordinates
StepAfter(i) ==
  VSub(ToBlender(vertices[i + 1].pos), ToBlender(vertices[i].pos))

\* t is the unit vector along d
UnitAlong(t, d) ==
  /\ LengthSquared(t) = 1
  /\ Dot(d, t) > 0
  /\ d = VScale(Dot(d, t), t)

\* C11: the tilt computation works on exactly one tangent per station: the
\* direction to the next station where the two positions differ, else the
\* tangent before it, or +Z at the first station; the last station takes
\* the tangent of the station before it, or +Z when it is the only one; no
\* tangent is the zero vector.
C11_Tangents ==
  import_result \in {"RUNNING", "FINISHED"} =>
    LET n == Len(vertices) IN
    /\ n >= 1
    /\ Len(tangents) = n
    /\ \A i \in 1..(n - 1) :
         IF StepAfter(i) # ZeroVec THEN UnitAlong(tangents[i], StepAfter(i))
         ELSE tangents[i] = (IF i = 1 THEN PlusZ ELSE tangents[i - 1])
    /\ tangents[n] = (IF n = 1 THEN PlusZ ELSE tangents[n - 1])
    /\ \A i \in 1..n : tangents[i] # ZeroVec

C11_Witness ==
  /\ pc = "tilt"
  /\ Len(vertices) = 3
  /\ StepAfter(1) = <<2, 0, 0>>
  /\ StepAfter(2) = ZeroVec
  /\ tangents = <<PlusX, PlusX, PlusX>>

\* the offset a / b comes before the offset c / d, for b, d > 0
OffsetBefore(x, y) ==
  x[1] * y[2] < y[1] * x[2]

\* C12: with c the point count in effect, the i-th offset set in the
\* sampling loop is i / (c - 1) when c >= 2, so that the offsets start at 0,
\* increase strictly and end at 1; when c <= 1 the divisor is 1, and the
\* only offset, if any, is 0; the divisor is never 0.
C12_Offsets ==
  export_result \in {"RUNNING", "RAISED", "FINISHED"} =>
    /\ \A k \in 1..Len(offsets) :
         /\ offsets[k][2] # 0
         /\ offsets[k] = <<k - 1, IF point_count >= 2 THEN point_count - 1 ELSE 1>>
    /\ \A k \in 1..(Len(offsets) - 1) : OffsetBefore(offsets[k], offsets[k + 1])
    /\ Len(offsets) >= 1 => offsets[1][1] = 0
    /\ point_count <= 1 => (Len(offsets) <= 1 /\ largest_index = 1)
    /\ export_result = "FINISHED" =>
         /\ Len(offsets) = point_count
         /\ point_count >= 2 => offsets[point_count][1] = offsets[point_count][2]

C12_Witness ==
  /\ export_result = "FINISHED"
  /\ point_count = 3
  /\ offsets = <<<<0, 2>>, <<1, 2>>, <<2, 2>>>>

====
